---- MODULE Spec2Model ----
(***************************************************************************)
(* Model of stock-dashboard.py: a Streamlit script that, when the sidebar  *)
(* button "Update" is pressed, downloads the bars of a ticker, normalises  *)
(* the frame (process_data), adds SMA_20 / EMA_20 (add_technical_          *)
(* indicators), computes the summary metrics (calculate_metrics) and then  *)
(* renders four artifacts one after the other.                             *)
(*                                                                         *)
(* Floats are modelled as exact rationals [num, den] in lowest terms; the  *)
(* pandas NaN is the record NaN (den = 0), which is no rational.           *)
(***************************************************************************)
EXTENDS Integers, Sequences, FiniteSets, TLC

VARIABLES
    time_period,   \* st.sidebar.selectbox("Select time period")
    chart_type,    \* st.sidebar.selectbox("Select chart type")
    indicators,    \* st.sidebar.multiselect("Select indicators"), in selection order
    button,        \* value of st.sidebar.button("Update") in the current/last script run
    pc,            \* position of the script run; "idle" when no run is in progress
    request,       \* arguments of the yf.download call in flight
    data,          \* the DataFrame bound to `data`
    metrics,       \* the tuple returned by calculate_metrics
    exception,     \* the exception raised by the run, "none" when there is none
    page           \* elements the last run has sent to the browser, in order

vars == <<time_period, chart_type, indicators, button, pc, request, data,
          metrics, exception, page>>

-----------------------------------------------------------------------------
(* Bounds of the model *)

\* longest series the provider returns
MaxLen == 21
\* series shorter than the indicator window have at most this many bars
ShortLen == 3
\* longest series in the runs checked for termination
BriefLen == 1
\* number of trailing bars that vary freely; the bars before them are equal
FreeTail == 2

-----------------------------------------------------------------------------
(* Exact rational arithmetic standing for float arithmetic *)

Abs(x) == IF x < 0 THEN -x ELSE x

RECURSIVE GCD(_, _)
GCD(a, b) == IF b = 0 THEN a ELSE GCD(b, a % b)

\* n/d in lowest terms with a positive denominator (d # 0)
Rat(n, d) ==
    LET s == IF d < 0 THEN -1 ELSE 1
        g == GCD(Abs(n), Abs(d))
    IN  [num |-> (s * n) \div g, den |-> (s * d) \div g]

NaN == [num |-> 0, den |-> 0]
IsNaN(x) == x.den = 0
FromInt(n) == [num |-> n, den |-> 1]

RatAdd(x, y) ==
    LET g == GCD(x.den, y.den)
        l == (x.den \div g) * y.den
    IN  Rat(x.num * (l \div x.den) + y.num * (l \div y.den), l)

RatMul(x, y) == Rat(x.num * y.num, x.den * y.den)
\* y # 0
RatDiv(x, y) == Rat(x.num * y.den, x.den * y.num)

RECURSIVE SumSeq(_)
SumSeq(s) == IF s = <<>> THEN 0 ELSE Head(s) + SumSeq(Tail(s))

\* s[lo] + ... + s[hi]
RECURSIVE SumRange(_, _, _)
SumRange(s, lo, hi) == IF lo > hi THEN 0 ELSE s[hi] + SumRange(s, lo, hi - 1)

Max(a, b) == IF a >= b THEN a ELSE b
Min(a, b) == IF a <= b THEN a ELSE b

\* greatest and least element of a non-empty sequence, scanned from k with the
\* best so far
RECURSIVE MaxFrom(_, _, _)
MaxFrom(s, k, best) ==
    IF k > Len(s) THEN best ELSE MaxFrom(s, k + 1, Max(best, s[k]))

RECURSIVE MinFrom(_, _, _)
MinFrom(s, k, best) ==
    IF k > Len(s) THEN best ELSE MinFrom(s, k + 1, Min(best, s[k]))

MaxSeq(s) == MaxFrom(s, 2, s[1])
MinSeq(s) == MinFrom(s, 2, s[1])

-----------------------------------------------------------------------------
(* Program constants *)

\* window=20 of both indicator calls
Window == 20
\* timedelta(days=7)
RangeDays == 7
\* .tail(10) of both tables
TailRows == 10

periods == <<"1d", "1wk", "1mo", "1y">>
chart_types == <<"Line", "Candlestick">>
indicator_options == <<"SMA_20", "EMA_20">>

interval_mapping ==
    [p \in {"1d", "1wk", "1mo", "1y", "max"} |->
        CASE p = "1d"  -> "1m"
          [] p = "1wk" -> "30m"
          [] p = "1mo" -> "1d"
          [] p = "1y"  -> "1wk"
          [] p = "max" -> "1wk"]

-----------------------------------------------------------------------------
(* Results of calls: a value, or the exception the call raises *)

Ok(v) == [ok |-> TRUE, val |-> v]
Raise(e) == [ok |-> FALSE, exc |-> e]

NoFrame == [kind |-> "None"]
NoMetrics == [kind |-> "None"]
NoRequest == [kind |-> "None"]

-----------------------------------------------------------------------------
(* pandas operations used by process_data *)

\* hours east of UTC (standard time)
UtcOffset(tz) ==
    CASE tz = "UTC" -> 0
      [] tz = "America/New_York" -> -5
      [] tz = "US/Eastern" -> -5

\* DatetimeIndex.tz_localize: the naive wall-clock readings are taken to be in tz
tz_localize(df, tz) == [df EXCEPT !.tz = tz]

\* DatetimeIndex.tz_convert: same instants, wall clock of the new zone
tz_convert(df, tz) ==
    [df EXCEPT !.tz = tz,
               !.index = [i \in 1..Len(df.index) |->
                             df.index[i] - UtcOffset(df.tz) + UtcOffset(tz)]]

\* DataFrame.reset_index: the index becomes the first column, a RangeIndex replaces it
reset_index(df) ==
    LET c == IF df.name = "" THEN "index" ELSE df.name
    IN  [df EXCEPT !.kind = "RangeIndex",
                   !.name = "",
                   !.index = [i \in 1..Len(df.index) |-> i - 1],
                   !.columns = <<c>> \o df.columns,
                   !.col = (c :> df.index) @@ df.col]

\* DataFrame.rename(columns={old: new})
rename(df, old, new) ==
    IF old \notin DOMAIN df.col THEN df
    ELSE [df EXCEPT
            !.columns = [i \in 1..Len(df.columns) |->
                            IF df.columns[i] = old THEN new ELSE df.columns[i]],
            !.col = [c \in (DOMAIN df.col \ {old}) \cup {new} |->
                        IF c = new THEN df.col[old] ELSE df.col[c]]]

\* process_data(data): RangeIndex and Index have no attribute tzinfo
process_data(df) ==
    IF df.kind # "DatetimeIndex" THEN Raise("AttributeError")
    ELSE LET d1 == IF df.tz = "naive" THEN tz_localize(df, "UTC") ELSE df
             d2 == tz_convert(d1, "US/Eastern")
             d3 == reset_index(d2)
         IN  Ok(rename(d3, "Date", "Datetime"))

-----------------------------------------------------------------------------
(* ta.trend indicators *)

\* running window sums of Series.rolling(window): add the new value, drop the
\* one that leaves the window; sums holds the sums of bars 1..k-1
RECURSIVE RollingSums(_, _, _, _)
RollingSums(close, window, k, sums) ==
    IF k > Len(close) THEN sums
    ELSE RollingSums(close, window, k + 1,
             Append(sums, (IF k = 1 THEN 0 ELSE sums[k - 1]) + close[k]
                            - (IF k > window THEN close[k - window] ELSE 0)))

\* sma_indicator with min_periods = 1: the mean of the bars there are
sma_indicator_partial(close, window) ==
    LET sums == RollingSums(close, window, 1, <<>>)
    IN  [k \in 1..Len(close) |-> Rat(sums[k], Min(k, window))]

\* sma_indicator(close, window) = close.rolling(window, min_periods=window).mean()
sma_indicator(close, window) ==
    LET sums == RollingSums(close, window, 1, <<>>)
    IN  [k \in 1..Len(close) |->
            IF k >= window THEN Rat(sums[k], window) ELSE NaN]

\* one step of Series.ewm(span, adjust=False).mean():
\* (old_wt * avg + new_wt * cur) / (old_wt + new_wt) with new_wt = alpha =
\* 2 / (span + 1) and old_wt = 1 - alpha
EwmStep(span, avg, cur) ==
    RatDiv(RatAdd(RatMul(Rat(span - 1, span + 1), avg),
                  RatMul(Rat(2, span + 1), FromInt(cur))),
           RatAdd(Rat(span - 1, span + 1), Rat(2, span + 1)))

\* the weighted averages: the first value, then one step per bar; avgs holds
\* the averages of bars 1..k-1
RECURSIVE EwmAverages(_, _, _, _)
EwmAverages(close, span, k, avgs) ==
    IF k > Len(close) THEN avgs
    ELSE EwmAverages(close, span, k + 1,
             Append(avgs, IF k = 1 THEN FromInt(close[1])
                          ELSE EwmStep(span, avgs[k - 1], close[k])))

\* an EMA seeded at the window-th bar with the mean of the first window closes
RECURSIVE SmaSeeded(_, _, _, _)
SmaSeeded(close, span, k, avgs) ==
    IF k > Len(close) THEN avgs
    ELSE SmaSeeded(close, span, k + 1,
             Append(avgs, IF k < span THEN NaN
                          ELSE IF k = span THEN Rat(SumRange(close, 1, span), span)
                          ELSE EwmStep(span, avgs[k - 1], close[k])))

ema_indicator_sma_seed(close, window) == SmaSeeded(close, window, 1, <<>>)

\* ema_indicator(close, window) =
\*     close.ewm(span=window, min_periods=window, adjust=False).mean()
ema_indicator(close, window) ==
    LET avg == EwmAverages(close, window, 1, <<>>)
    IN  [k \in 1..Len(close) |-> IF k >= window THEN avg[k] ELSE NaN]

\* data[name] = values
SetColumn(df, name, values) ==
    [df EXCEPT !.columns = IF name \in DOMAIN df.col THEN df.columns
                           ELSE Append(df.columns, name),
               !.col = (name :> values) @@ df.col]

add_technical_indicators(df) ==
    LET d1 == SetColumn(df, "SMA_20", sma_indicator(df.col["Close"], Window))
    IN  SetColumn(d1, "EMA_20", ema_indicator(df.col["Close"], Window))

-----------------------------------------------------------------------------
(* calculate_metrics *)

\* calculate_metrics with the close of the bar before the last as prev_close
calculate_metrics_prev_bar(df) ==
    LET close == df.col["Close"]
        n == Len(close)
    IN  IF n = 0 THEN Raise("IndexError")
        ELSE LET last_close == close[n]
                 prev_close == close[Max(1, n - 1)]
                 change == last_close - prev_close
             IN  IF prev_close = 0 THEN Raise("ZeroDivisionError")
                 ELSE Ok([kind |-> "Metrics",
                          last_close |-> last_close,
                          change |-> change,
                          pct_change |-> RatMul(Rat(change, prev_close), FromInt(100)),
                          high |-> MaxSeq(df.col["High"]),
                          low |-> MinSeq(df.col["Low"]),
                          volume |-> SumSeq(df.col["Volume"])])

\* calculate_metrics with high and low taken from the Close column
calculate_metrics_close_range(df) ==
    LET close == df.col["Close"]
        n == Len(close)
    IN  IF n = 0 THEN Raise("IndexError")
        ELSE LET last_close == close[n]
                 prev_close == close[1]
                 change == last_close - prev_close
             IN  IF prev_close = 0 THEN Raise("ZeroDivisionError")
                 ELSE Ok([kind |-> "Metrics",
                          last_close |-> last_close,
                          change |-> change,
                          pct_change |-> RatMul(Rat(change, prev_close), FromInt(100)),
                          high |-> MaxSeq(close),
                          low |-> MinSeq(close),
                          volume |-> SumSeq(df.col["Volume"])])

calculate_metrics(df) ==
    LET close == df.col["Close"]
        n == Len(close)
    IN  IF n = 0 THEN Raise("IndexError")           \* .iloc[-1] of an empty column
        ELSE LET last_close == close[n]
                 prev_close == close[1]
                 change == last_close - prev_close
             IN  IF prev_close = 0 THEN Raise("ZeroDivisionError")
                 ELSE Ok([kind |-> "Metrics",
                          last_close |-> last_close,
                          change |-> change,
                          pct_change |-> RatMul(Rat(change, prev_close), FromInt(100)),
                          high |-> MaxSeq(df.col["High"]),
                          low |-> MinSeq(df.col["Low"]),
                          volume |-> SumSeq(df.col["Volume"])])

-----------------------------------------------------------------------------
(* The market-data provider: what yf.download may hand back *)

\* the kinds of bar the provider's series are made of
Bars ==
    { [Open |-> 1, High |-> 2, Low |-> 0, Close |-> 0, Volume |-> 0],
      [Open |-> 1, High |-> 4, Low |-> 1, Close |-> 1, Volume |-> 5],
      [Open |-> 3, High |-> 3, Low |-> 2, Close |-> 2, Volume |-> 1] }

\* series of n bars: equal bars followed by FreeTail bars chosen freely
SeriesOfLen(n) ==
    { [i \in 1..n |-> IF i <= n - FreeTail THEN b ELSE t[i - (n - FreeTail)]] :
        b \in Bars, t \in [1..FreeTail -> Bars] }

\* a rising series: the first close is 1, the second is Window + 1 higher, and
\* every later one 2 higher than the one before
TrendBar(i) ==
    LET c == IF i = 1 THEN 1 ELSE Window + 2 * i - 2
    IN  [Open |-> c, High |-> c + 1, Low |-> c - 1, Close |-> c, Volume |-> i]

TrendSeries(n) == [i \in 1..n |-> TrendBar(i)]

\* no bars, a few bars, and around Window bars
Lengths == (0..ShortLen) \cup ((Window - 1)..MaxLen)

AllSeries ==
    UNION { SeriesOfLen(n) : n \in Lengths } \cup { TrendSeries(n) : n \in Lengths }

\* daily bars come with a naive "Date" index, intraday bars with a timezone-aware
\* "Datetime" index
IndexLabels ==
    { [name |-> "Date", tz |-> "naive"],
      [name |-> "Datetime", tz |-> "UTC"],
      [name |-> "Datetime", tz |-> "America/New_York"] }

Column(bars, c) == [i \in 1..Len(bars) |-> bars[i][c]]

DataFrame(bars, label) ==
    [kind |-> "DatetimeIndex",
     name |-> label.name,
     tz |-> label.tz,
     index |-> [i \in 1..Len(bars) |-> i],
     columns |-> <<"Close", "High", "Low", "Open", "Volume">>,
     col |-> [c \in {"Close", "High", "Low", "Open", "Volume"} |-> Column(bars, c)]]

\* an empty result whose index is a plain Index, not a DatetimeIndex
EmptyFrame ==
    [DataFrame(<<>>, [name |-> "", tz |-> "naive"]) EXCEPT !.kind = "Index"]

FramesOf(series) ==
    { DataFrame(bars, label) : bars \in series, label \in IndexLabels }
        \cup {EmptyFrame}

ProviderFrames == FramesOf(AllSeries)

\* the frames of at most BriefLen bars
BriefFrames == FramesOf({ bars \in AllSeries : Len(bars) <= BriefLen })

-----------------------------------------------------------------------------
(* get_stock_data: the yf.download call it makes *)

\* get_stock_data without the branch for '1wk'
get_stock_data_period_only(ticker, period, interval) ==
    [kind |-> "download", ticker |-> ticker, by |-> "period",
     period |-> period, days |-> 0, interval |-> interval]

get_stock_data(ticker, period, interval) ==
    IF period = "1wk"
    THEN [kind |-> "download", ticker |-> ticker, by |-> "start_end",
          period |-> "", days |-> RangeDays, interval |-> interval]
    ELSE [kind |-> "download", ticker |-> ticker, by |-> "period",
          period |-> period, days |-> 0, interval |-> interval]

ticker == "AAPL"

Range(s) == { s[i] : i \in DOMAIN s }

\* what st.sidebar.multiselect can return: the chosen options in the order chosen
Selections ==
    { s \in UNION { [1..n -> Range(indicator_options)] : n \in 0..Len(indicator_options) } :
        \A i, j \in DOMAIN s : i # j => s[i] # s[j] }

-----------------------------------------------------------------------------
(* The script run *)

Init ==
    /\ time_period = periods[1]
    /\ chart_type = chart_types[1]
    /\ indicators = <<>>
    /\ button = FALSE
    /\ pc = "idle"
    /\ request = NoRequest
    /\ data = NoFrame
    /\ metrics = NoMetrics
    /\ exception = "none"
    /\ page = <<>>

\* a widget change reruns the script with button = False: the main content is
\* skipped and the page holds no artifact
Rerun ==
    /\ button' = FALSE
    /\ page' = <<>>
    /\ exception' = "none"
    /\ UNCHANGED <<pc, request, data, metrics>>

SelectTimePeriod ==
    /\ pc = "idle"
    /\ \E p \in Range(periods) \ {time_period} : time_period' = p
    /\ Rerun
    /\ UNCHANGED <<chart_type, indicators>>

SelectChartType ==
    /\ pc = "idle"
    /\ \E c \in Range(chart_types) \ {chart_type} : chart_type' = c
    /\ Rerun
    /\ UNCHANGED <<time_period, indicators>>

SelectIndicators ==
    /\ pc = "idle"
    /\ \E s \in Selections \ {indicators} : indicators' = s
    /\ Rerun
    /\ UNCHANGED <<time_period, chart_type>>

\* an Update that is also taken while a run is in progress
Update_during_run ==
    /\ button' = TRUE
    /\ page' = <<>>
    /\ request' = get_stock_data(ticker, time_period, interval_mapping[time_period])
    /\ exception' = "none"
    /\ pc' = "download"
    /\ UNCHANGED <<time_period, chart_type, indicators, data, metrics>>

\* the Update button: the script reruns with button = True and calls
\* get_stock_data(ticker, time_period, interval_mapping[time_period])
Update ==
    /\ pc = "idle"
    /\ button' = TRUE
    /\ page' = <<>>
    /\ IF time_period \in DOMAIN interval_mapping
       THEN /\ request' = get_stock_data(ticker, time_period,
                                         interval_mapping[time_period])
            /\ exception' = "none"
            /\ pc' = "download"
       ELSE /\ request' = NoRequest
            /\ exception' = "KeyError"
            /\ pc' = "raised"
    /\ UNCHANGED <<time_period, chart_type, indicators, data, metrics>>

DownloadReturns(frames) ==
    /\ pc = "download"
    /\ \E df \in frames : data' = df
    /\ request' = NoRequest
    /\ pc' = "process"
    /\ UNCHANGED <<time_period, chart_type, indicators, button, metrics,
                   exception, page>>

DownloadRaises ==
    /\ pc = "download"
    /\ request' = NoRequest
    /\ exception' = "DownloadError"
    /\ pc' = "raised"
    /\ UNCHANGED <<time_period, chart_type, indicators, button, data, metrics, page>>

ProcessData ==
    /\ pc = "process"
    /\ LET r == process_data(data)
       IN  IF r.ok
           THEN data' = r.val /\ pc' = "indicators" /\ UNCHANGED exception
           ELSE exception' = r.exc /\ pc' = "raised" /\ UNCHANGED data
    /\ UNCHANGED <<time_period, chart_type, indicators, button, request, metrics, page>>

AddTechnicalIndicators ==
    /\ pc = "indicators"
    /\ data' = add_technical_indicators(data)
    /\ pc' = "metrics"
    /\ UNCHANGED <<time_period, chart_type, indicators, button, request, metrics,
                   exception, page>>

CalculateMetrics ==
    /\ pc = "metrics"
    /\ LET r == calculate_metrics(data)
       IN  IF r.ok
           THEN metrics' = r.val /\ pc' = "render_metrics" /\ UNCHANGED exception
           ELSE exception' = r.exc /\ pc' = "raised" /\ UNCHANGED metrics
    /\ UNCHANGED <<time_period, chart_type, indicators, button, request, data, page>>

Element(kind, body) == [kind |-> kind, body |-> body]

\* st.metric for the last price, then High, Low and Volume in three columns
RenderMetrics ==
    /\ pc = "render_metrics"
    /\ page' = Append(page, Element("metrics", metrics))
    /\ pc' = "render_chart"
    /\ UNCHANGED <<time_period, chart_type, indicators, button, request, data,
                   metrics, exception>>

\* the traces of fig: the price trace, then one Scatter per selected indicator
Traces ==
    <<IF chart_type = "Candlestick" THEN "Candlestick" ELSE "Close">>
        \o [i \in 1..Len(indicators) |->
               CASE indicators[i] = "SMA_20" -> "SMA 20"
                 [] indicators[i] = "EMA_20" -> "EMA 20"
                 [] indicators[i] = "RSI" -> "RSI"]

RenderChart ==
    /\ pc = "render_chart"
    /\ page' = Append(page, Element("chart", Traces))
    /\ pc' = "render_history"
    /\ UNCHANGED <<time_period, chart_type, indicators, button, request, data,
                   metrics, exception>>

\* st.dataframe(data[[...]].tail(10))
Table(df, names) ==
    [columns |-> names, rows |-> Min(TailRows, Len(df.index))]

RenderHistory ==
    /\ pc = "render_history"
    /\ page' = Append(page, Element("history",
                   Table(data, <<"Datetime", "Open", "High", "Low", "Close", "Volume">>)))
    /\ pc' = "render_indicators"
    /\ UNCHANGED <<time_period, chart_type, indicators, button, request, data,
                   metrics, exception>>

\* the last statement of the main content: the run ends and its names are dropped
RenderIndicators ==
    /\ pc = "render_indicators"
    /\ page' = Append(page, Element("indicators",
                   Table(data, <<"Datetime">> \o indicators)))
    /\ pc' = "idle"
    /\ data' = NoFrame
    /\ metrics' = NoMetrics
    /\ UNCHANGED <<time_period, chart_type, indicators, button, request, exception>>

RenderStages == {"render_metrics", "render_chart", "render_history", "render_indicators"}

\* a streamlit / plotly call of the render part raises
RenderRaises ==
    /\ pc \in RenderStages
    /\ exception' = "RenderError"
    /\ pc' = "raised"
    /\ UNCHANGED <<time_period, chart_type, indicators, button, request, data,
                   metrics, page>>

\* nothing in the script catches: the exception ends the run, and the script
\* runner shows it below what the run has rendered so far
UncaughtException ==
    /\ pc = "raised"
    /\ page' = Append(page, Element("exception", exception))
    /\ pc' = "idle"
    /\ data' = NoFrame
    /\ metrics' = NoMetrics
    /\ UNCHANGED <<time_period, chart_type, indicators, button, request, exception>>

\* the user's steps
UserStep ==
    \/ SelectTimePeriod
    \/ SelectChartType
    \/ SelectIndicators
    \/ Update

\* the run itself, with the provider answering from frames
RunStep(frames) ==
    \/ DownloadReturns(frames)
    \/ DownloadRaises
    \/ ProcessData
    \/ AddTechnicalIndicators
    \/ CalculateMetrics
    \/ RenderMetrics
    \/ RenderChart
    \/ RenderHistory
    \/ RenderIndicators
    \/ RenderRaises
    \/ UncaughtException

Next == UserStep \/ RunStep(ProviderFrames)

Spec == Init /\ [][Next]_vars

\* the same script with the provider answering with brief frames only; a run is
\* synchronous: once started it keeps executing, and the download returns or
\* raises
BriefNext == UserStep \/ RunStep(BriefFrames)

FairSpec == Init /\ [][BriefNext]_vars /\ WF_vars(RunStep(BriefFrames))

-----------------------------------------------------------------------------
(* process_data called directly, as a unit test would, on a provider frame and *)
(* then again on what it returned                                            *)

UnitInit ==
    /\ time_period = periods[1]
    /\ chart_type = chart_types[1]
    /\ indicators = <<>>
    /\ button = FALSE
    /\ pc = "unit0"
    /\ request = NoRequest
    /\ data \in ProviderFrames
    /\ metrics = NoMetrics
    /\ exception = "none"
    /\ page = <<>>

CallProcessData(from, to) ==
    /\ pc = from
    /\ exception = "none"
    /\ LET r == process_data(data)
       IN  IF r.ok
           THEN data' = r.val /\ UNCHANGED exception
           ELSE exception' = r.exc /\ UNCHANGED data
    /\ pc' = to
    /\ UNCHANGED <<time_period, chart_type, indicators, button, request, metrics, page>>

UnitFirstCall == CallProcessData("unit0", "unit1")
UnitSecondCall == CallProcessData("unit1", "unit2")

UnitNext == UnitFirstCall \/ UnitSecondCall

UnitSpec == UnitInit /\ [][UnitNext]_vars

-----------------------------------------------------------------------------
(* Properties *)

Idle == pc = "idle"
Refreshing == pc # "idle"

HasData == data.kind # "None"
HasMetrics == metrics.kind = "Metrics"
HasColumn(c) == HasData /\ c \in DOMAIN data.col
\* add_technical_indicators has just returned: data is what it produced
IndicatorsAdded == pc = "metrics"
NumBars == Len(data.index)

Kinds(p) == { p[i].kind : i \in DOMAIN p }
Artifacts == {"metrics", "chart", "history", "indicators"}
Count(p, k) == Cardinality({ i \in DOMAIN p : p[i].kind = k })

-----------------------------------------------------------------------------
C2_NoPartialRefresh ==
    (Idle /\ button) =>
        \/ Artifacts \subseteq Kinds(page) /\ Count(page, "exception") = 0
        \/ Kinds(page) \cap Artifacts = {} /\ Count(page, "exception") = 1

\* C3 (as claimed): with an empty series calculate_metrics fails with the dedicated
\* empty-input error, the indicator columns have zero length, and the refresh does
\* not crash but ends in a "no data" state.
C3_EmptySeries ==
    (pc = "raised" /\ HasColumn("EMA_20") /\ NumBars = 0) =>
        /\ Len(data.col["SMA_20"]) = 0
        /\ Len(data.col["EMA_20"]) = 0
        /\ exception = "EmptyInputError"

\* C4 (as claimed): a zero first close or a series shorter than the window never
\* fails the refresh: the computation completes, so only rendering can raise.
C4_GuardsNeverFail ==
    (/\ pc = "raised"
     /\ HasColumn("SMA_20")
     /\ NumBars > 0
     /\ (data.col["Close"][1] = 0 \/ NumBars < Window)) =>
        exception = "RenderError"

\* C5: for a non-empty series with a non-zero first close, last_close is the last
\* close, change is last close minus first close, pct_change is
\* change / first close * 100, and pct_change is 0 exactly when the two are equal.
C5_Metrics ==
    /\ (pc = "render_metrics" /\ data.col["Close"][1] # 0) => HasMetrics
    /\ HasMetrics =>
        LET close == data.col["Close"]
            first == close[1]
            last == close[Len(close)]
        IN  /\ first # 0
            /\ metrics.last_close = last
            /\ metrics.change = last - first
            /\ ~IsNaN(metrics.pct_change)
            /\ metrics.pct_change.num * first
                   = 100 * (last - first) * metrics.pct_change.den
            /\ (metrics.pct_change = FromInt(0)) <=> (last = first)

\* first close 2, last close 1: change -1, pct_change -50
C5_Witness ==
    /\ HasMetrics
    /\ NumBars >= Window
    /\ metrics.change = -1
    /\ metrics.pct_change = FromInt(-50)

\* C6: high is the greatest high and is the high of some bar, low is the least low
\* and is the low of some bar, volume is the sum of all volumes.
C6_HighLowVolume ==
    HasMetrics =>
        LET n == NumBars
            H == data.col["High"]
            L == data.col["Low"]
            V == data.col["Volume"]
        IN  /\ n > 0
            /\ \A i \in 1..n : metrics.high >= H[i] /\ metrics.low <= L[i]
            /\ \E i \in 1..n : metrics.high = H[i]
            /\ \E i \in 1..n : metrics.low = L[i]
            /\ metrics.volume = SumSeq(V)

\* the greatest high and the least low are not those of the last bar
C6_Witness ==
    /\ HasMetrics
    /\ NumBars >= Window
    /\ metrics.high > data.col["High"][NumBars]
    /\ metrics.low < data.col["Low"][NumBars]
    /\ metrics.volume > data.col["Volume"][NumBars]

\* C7: SMA_20 has one entry per bar; the entries before the Window-th bar are the
\* undefined marker, which is no number; every later entry is the arithmetic mean
\* of the Window closes that end at its bar.
C7_Sma ==
    IndicatorsAdded =>
        LET close == data.col["Close"]
            sma == data.col["SMA_20"]
        IN  /\ {"SMA_20", "EMA_20"} \subseteq DOMAIN data.col
            /\ Len(sma) = Len(close)
            /\ Len(sma) = NumBars
            /\ \A k \in 1..Len(close) :
                  IF k < Window
                  THEN IsNaN(sma[k]) /\ sma[k] # FromInt(0)
                  ELSE /\ sma[k].den > 0
                       /\ sma[k].num * Window
                              = sma[k].den * SumRange(close, k - Window + 1, k)

\* the window has slid: two defined entries that differ
C7_Witness ==
    /\ IndicatorsAdded
    /\ NumBars > Window
    /\ IsNaN(data.col["SMA_20"][Window - 1])
    /\ ~IsNaN(data.col["SMA_20"][Window])
    /\ data.col["SMA_20"][Window + 1] # data.col["SMA_20"][Window]

\* close * a + prev * (1 - a) with a = 2 / (Window + 1)
EmaStep(c, prev) ==
    RatAdd(RatMul(Rat(2, Window + 1), FromInt(c)),
           RatMul(Rat(Window - 1, Window + 1), prev))

\* the values of the recurrence started at the first bar with the first close;
\* e holds the values of bars 1..k-1
RECURSIVE FirstCloseSeeded(_, _, _)
FirstCloseSeeded(close, k, e) ==
    IF k > Len(close) THEN e
    ELSE FirstCloseSeeded(close, k + 1,
             Append(e, IF k = 1 THEN FromInt(close[1])
                       ELSE EmaStep(close[k], e[k - 1])))

\* C8 (as claimed): with at least Window bars, EMA_20 is undefined before the
\* Window-th bar, its entry at the Window-th bar equals the SMA_20 entry there, and
\* every later entry follows the recurrence from the entry before it.
C8_SharedSeed ==
    (IndicatorsAdded /\ NumBars >= Window) =>
        LET close == data.col["Close"]
            ema == data.col["EMA_20"]
        IN  /\ \A k \in 1..(Window - 1) : IsNaN(ema[k])
            /\ ema[Window] = data.col["SMA_20"][Window]
            /\ \A k \in (Window + 1)..Len(close) :
                  ema[k] = EmaStep(close[k], ema[k - 1])

\* C8 (amended): with at least Window bars, EMA_20 is undefined before the
\* Window-th bar; every entry from the Window-th bar on is the value of the
\* recurrence seeded at the first bar with the first close; and every entry after
\* the Window-th follows the recurrence from the entry before it.
C8_FirstCloseSeed ==
    (IndicatorsAdded /\ NumBars >= Window) =>
        LET close == data.col["Close"]
            ema == data.col["EMA_20"]
        IN  /\ Len(ema) = Len(close)
            /\ \A k \in 1..(Window - 1) : IsNaN(ema[k])
            /\ LET e == FirstCloseSeeded(close, 1, <<>>)
               IN  \A k \in Window..Len(close) : ema[k] = e[k]
            /\ \A k \in (Window + 1)..Len(close) :
                  ema[k] = EmaStep(close[k], ema[k - 1])

\* the entry at the Window-th bar is not the SMA there, and a later entry exists
C8_Witness ==
    /\ IndicatorsAdded
    /\ NumBars > Window
    /\ data.col["Close"][1] # data.col["Close"][2]
    /\ data.col["EMA_20"][Window] # data.col["SMA_20"][Window]
    /\ data.col["EMA_20"][Window + 1] # data.col["EMA_20"][Window]

\* C9 (as claimed): process_data applied to a frame process_data has produced
\* succeeds and returns a frame identical to it.
C9_Idempotent ==
    [][(pc = "unit1" /\ exception = "none") =>
          (exception' = "none" /\ data' = data)]_vars

\* the interval of each selectable period
IntervalOf(p) ==
    CASE p = "1d"  -> "1m"
      [] p = "1wk" -> "30m"
      [] p = "1mo" -> "1d"
      [] p = "1y"  -> "1wk"

\* C10: a refresh downloads with the interval the table gives for the selected
\* period; the table is defined for every selectable period (and maps max to 1wk),
\* so the lookup never fails; 1wk alone is downloaded by a start/end range of 7
\* days, every other period is passed as a period.
C10_Request ==
    /\ time_period \in Range(periods)
    /\ time_period \in DOMAIN interval_mapping
    /\ interval_mapping["max"] = "1wk"
    /\ exception # "KeyError"
    /\ (Refreshing \/ button) => request.kind = (IF pc = "download" THEN "download" ELSE "None")
    /\ pc = "download" =>
          /\ request.ticker = ticker
          /\ request.interval = IntervalOf(time_period)
          /\ IF time_period = "1wk"
             THEN request.by = "start_end" /\ request.days = 7
             ELSE request.by = "period" /\ request.period = time_period

C10_Witness ==
    /\ pc = "download"
    /\ time_period = "1wk"
    /\ request.by = "start_end"
    /\ request.interval = "30m"

====
